---- MODULE Spec2Model ----
(***************************************************************************)
(* Model of the adaptive iteration engine of benchmark_generator.py:       *)
(* class AstraZenecaBenchmark (generate_question, solve, judge,            *)
(* run_iteration) and the pydantic schemas BenchmarkItem and Evaluation.   *)
(*                                                                         *)
(* Numbers.  alpha and the scores of the judge replies are decimals with   *)
(* one fractional digit, written in tenths (10 is 1.0), as they stand in   *)
(* the call and in the reply.  The EMA is a Python float, an IEEE 754       *)
(* binary64 number: [m, e] is m * 2^e with the 53-bit significand m held   *)
(* in four limbs of 14 bits, least significant first.  Multiplication,     *)
(* addition and subtraction compute the exact result and round it to the   *)
(* nearest float, ties to even, as the hardware does.  All operands of the *)
(* program are non-negative and far from the ends of the exponent range,   *)
(* so signs, subnormals, infinities and NaN do not occur.                  *)
(*                                                                         *)
(* Text.  Strings that the program only passes along are TLA+ strings.     *)
(* The difficulty_intent strings that clean_int parses are sequences of    *)
(* Unicode code points, so split, strip and int act on characters.         *)
(***************************************************************************)
EXTENDS Integers, Sequences, FiniteSets, TLC

VARIABLES
    alpha,             \* self.alpha, in tenths
    ema_score,         \* self.ema_score (Unset is Python's None)
    iteration,         \* self.iteration
    question_history,  \* self.question_history
    pc,                \* position inside run_iteration
    domain,            \* run_iteration's argument
    difficulty,        \* run_iteration's local
    item,              \* run_iteration's local (a BenchmarkItem)
    answer,            \* run_iteration's local
    evaluation,        \* run_iteration's local (an Evaluation)
    requests,          \* requests sent upstream by the call in progress
    response,          \* the upstream reply to the last request
    record,            \* the dict returned by the last completed call
    sel,               \* EMA read and difficulty chosen by the latest selection
    prev_sel           \* the same for the selection before it

vars == <<alpha, ema_score, iteration, question_history, pc, domain, difficulty,
          item, answer, evaluation, requests, response, record, sel, prev_sel>>

----------------------------------------------------------------------------
(* Bounds of the model *)

\* run_iteration calls explored with every upstream outcome (Spec)
MaxIter == 4
\* run_iteration calls explored with the reduced set of upstream replies (SpecLong)
MaxIterLong == 12
\* run_iteration calls explored with every rubric-independent score (SpecEma)
MaxIterEma == 3

----------------------------------------------------------------------------
(* Program constants *)

DefaultDifficulty == 5
EasyBase == 5
HardBase == 6
MinDifficulty == 3
MaxDifficulty == 10
TrapAbove == 8
HistoryWindow == 10
FieldMin == 1
FieldMax == 10

\* alpha values given to the constructor, in tenths (0.3 is the default)
Alphas == {3, 5}

Domains == {"Oncology", "Rare Disease"}

Min(a, b) == IF a < b THEN a ELSE b
Max(a, b) == IF a > b THEN a ELSE b

----------------------------------------------------------------------------
(* Natural numbers of up to 112 bits: tuples of limbs, least significant   *)
(* first.  The operations work on eight limbs; a shorter tuple stands for  *)
(* the number with zero limbs above it.                                    *)

LimbBits == 14
Limb == 2^LimbBits
WideLimbs == 8

\* limb j of n
At(n, j) == IF j >= 1 /\ j <= Len(n) THEN n[j] ELSE 0

\* n * 2^k
ShiftLeft(n, k) ==
    LET w == k \div LimbBits
        b == k % LimbBits
        f == [j \in 1..WideLimbs |->
                 (At(n, j - w) % 2^(LimbBits - b)) * 2^b
                 + At(n, j - w - 1) \div 2^(LimbBits - b)]
    IN  <<f[1], f[2], f[3], f[4], f[5], f[6], f[7], f[8]>>

\* n \div 2^k
ShiftRight(n, k) ==
    LET w == k \div LimbBits
        b == k % LimbBits
        f == [j \in 1..WideLimbs |->
                 At(n, j + w) \div 2^b + (At(n, j + w + 1) % 2^b) * 2^(LimbBits - b)]
    IN  <<f[1], f[2], f[3], f[4], f[5], f[6], f[7], f[8]>>

\* the four low limbs
Low4(n) == <<n[1], n[2], n[3], n[4]>>

\* the four low limbs of n \div 2^k
ShiftRight4(n, k) ==
    LET w == k \div LimbBits
        b == k % LimbBits
        lo == 2^b
        hi == 2^(LimbBits - b)
    IN  <<n[1 + w] \div lo + (n[2 + w] % lo) * hi,
          n[2 + w] \div lo + (n[3 + w] % lo) * hi,
          n[3 + w] \div lo + (n[4 + w] % lo) * hi,
          n[4 + w] \div lo + (At(n, 5 + w) % lo) * hi>>

\* n + 1 for a four-limb number below 2^56 - 1
Inc4(n) ==
    IF n[1] < Limb - 1 THEN <<n[1] + 1, n[2], n[3], n[4]>>
    ELSE IF n[2] < Limb - 1 THEN <<0, n[2] + 1, n[3], n[4]>>
    ELSE IF n[3] < Limb - 1 THEN <<0, 0, n[3] + 1, n[4]>>
    ELSE <<0, 0, 0, n[4] + 1>>

\* number of bits of a limb
Bits(x) ==
    IF x >= 128
    THEN (IF x >= 2048
          THEN (IF x >= 8192 THEN 14 ELSE IF x >= 4096 THEN 13 ELSE 12)
          ELSE (IF x >= 1024 THEN 11 ELSE IF x >= 512 THEN 10 ELSE IF x >= 256 THEN 9 ELSE 8))
    ELSE (IF x >= 8
          THEN (IF x >= 64 THEN 7 ELSE IF x >= 32 THEN 6 ELSE IF x >= 16 THEN 5 ELSE 4)
          ELSE (IF x >= 4 THEN 3 ELSE IF x >= 2 THEN 2 ELSE x))

\* number of bits of an eight-limb number
BitLen(n) ==
    IF n[8] # 0 THEN 7 * LimbBits + Bits(n[8])
    ELSE IF n[7] # 0 THEN 6 * LimbBits + Bits(n[7])
    ELSE IF n[6] # 0 THEN 5 * LimbBits + Bits(n[6])
    ELSE IF n[5] # 0 THEN 4 * LimbBits + Bits(n[5])
    ELSE IF n[4] # 0 THEN 3 * LimbBits + Bits(n[4])
    ELSE IF n[3] # 0 THEN 2 * LimbBits + Bits(n[3])
    ELSE IF n[2] # 0 THEN LimbBits + Bits(n[2])
    ELSE Bits(n[1])

\* a + b, for a of eight limbs
AddN(a, b) ==
    LET t1 == a[1] + At(b, 1)
        t2 == a[2] + At(b, 2) + t1 \div Limb
        t3 == a[3] + At(b, 3) + t2 \div Limb
        t4 == a[4] + At(b, 4) + t3 \div Limb
        t5 == a[5] + At(b, 5) + t4 \div Limb
        t6 == a[6] + At(b, 6) + t5 \div Limb
        t7 == a[7] + At(b, 7) + t6 \div Limb
        t8 == a[8] + At(b, 8) + t7 \div Limb
    IN  <<t1 % Limb, t2 % Limb, t3 % Limb, t4 % Limb, t5 % Limb, t6 % Limb, t7 % Limb, t8>>

\* a - b, for a >= b and a of eight limbs
SubN(a, b) ==
    LET t1 == a[1] - At(b, 1)
        t2 == a[2] - At(b, 2) + t1 \div Limb
        t3 == a[3] - At(b, 3) + t2 \div Limb
        t4 == a[4] - At(b, 4) + t3 \div Limb
        t5 == a[5] - At(b, 5) + t4 \div Limb
        t6 == a[6] - At(b, 6) + t5 \div Limb
        t7 == a[7] - At(b, 7) + t6 \div Limb
        t8 == a[8] - At(b, 8) + t7 \div Limb
    IN  <<t1 % Limb, t2 % Limb, t3 % Limb, t4 % Limb, t5 % Limb, t6 % Limb, t7 % Limb, t8>>

\* a * b for two four-limb numbers
MulN(a, b) ==
    LET c1 == a[1] * b[1]
        c2 == a[1] * b[2] + a[2] * b[1] + c1 \div Limb
        c3 == a[1] * b[3] + a[2] * b[2] + a[3] * b[1] + c2 \div Limb
        c4 == a[1] * b[4] + a[2] * b[3] + a[3] * b[2] + a[4] * b[1] + c3 \div Limb
        c5 == a[2] * b[4] + a[3] * b[3] + a[4] * b[2] + c4 \div Limb
        c6 == a[3] * b[4] + a[4] * b[3] + c5 \div Limb
        c7 == a[4] * b[4] + c6 \div Limb
    IN  <<c1 % Limb, c2 % Limb, c3 % Limb, c4 % Limb, c5 % Limb, c6 % Limb, c7 % Limb,
          c7 \div Limb>>

\* a * k for a of eight limbs and a factor k below Limb
MulSmall(a, k) ==
    LET c1 == a[1] * k
        c2 == a[2] * k + c1 \div Limb
        c3 == a[3] * k + c2 \div Limb
        c4 == a[4] * k + c3 \div Limb
        c5 == a[5] * k + c4 \div Limb
        c6 == a[6] * k + c5 \div Limb
        c7 == a[7] * k + c6 \div Limb
        c8 == a[8] * k + c7 \div Limb
    IN  <<c1 % Limb, c2 % Limb, c3 % Limb, c4 % Limb, c5 % Limb, c6 % Limb, c7 % Limb, c8>>

\* quotient and remainder of an eight-limb number by a divisor d of at most Limb
DivN(a, d) ==
    LET r8 == a[8]
        r7 == (r8 % d) * Limb + a[7]
        r6 == (r7 % d) * Limb + a[6]
        r5 == (r6 % d) * Limb + a[5]
        r4 == (r5 % d) * Limb + a[4]
        r3 == (r4 % d) * Limb + a[3]
        r2 == (r3 % d) * Limb + a[2]
        r1 == (r2 % d) * Limb + a[1]
    IN  [q |-> <<r1 \div d, r2 \div d, r3 \div d, r4 \div d, r5 \div d, r6 \div d, r7 \div d,
                 r8 \div d>>,
         r |-> r1 % d]

\* a < b
LessN(a, b) ==
    \E j \in 1..WideLimbs :
        /\ At(a, j) < At(b, j)
        /\ \A k \in (j + 1)..WideLimbs : At(a, k) = At(b, k)

----------------------------------------------------------------------------
(* Python floats *)

MantissaBits == 53

\* None
Unset == [m |-> <<>>, e |-> 0]

Zero == [m |-> <<0, 0, 0, 0>>, e |-> 0]
IsZero(x) == x.m = <<0, 0, 0, 0>>

\* the float nearest to (n + f) * 2^e, ties to even, for an eight-limb number n and
\* a fraction f in [0, 1) that is not zero exactly when frac is TRUE (then n has
\* more than MantissaBits bits)
Round(n, e, frac) ==
    LET len == BitLen(n)
        cut == len - MantissaBits
        q == ShiftRight4(n, cut)
        top == n[(cut - 1) \div LimbBits + 1]
        bit == 2^((cut - 1) % LimbBits)
        half == (top \div bit) % 2 = 1
        rest == \/ frac
                \/ top % bit # 0
                \/ \E j \in 1..((cut - 1) \div LimbBits) : n[j] # 0
        r == IF half /\ (rest \/ q[1] % 2 = 1) THEN Inc4(q) ELSE q
    IN  IF len = 0 THEN Zero
        ELSE IF len <= MantissaBits
        THEN [m |-> Low4(ShiftLeft(n, MantissaBits - len)), e |-> e - (MantissaBits - len)]
        ELSE IF r[4] >= 2^(MantissaBits - 3 * LimbBits)
        THEN [m |-> ShiftRight4(r, 1), e |-> e + cut + 1]
        ELSE [m |-> r, e |-> e + cut]

\* x * y
Mul(x, y) == Round(MulN(x.m, y.m), x.e + y.e, FALSE)

\* largest exponent gap at which both operands fit into eight limbs; beyond it the
\* smaller operand is less than a quarter of the last place of the larger one
Reach == WideLimbs * LimbBits - MantissaBits - 2

\* x + y
Add(x, y) ==
    LET big == IF x.e >= y.e THEN x ELSE y
        small == IF x.e >= y.e THEN y ELSE x
        gap == big.e - small.e
    IN  IF IsZero(x) THEN y
        ELSE IF IsZero(y) THEN x
        ELSE IF gap > Reach THEN Round(ShiftLeft(big.m, 2), big.e - 2, TRUE)
        ELSE Round(AddN(ShiftLeft(big.m, gap), small.m), small.e, FALSE)

\* x - y, for x >= y
Sub(x, y) ==
    LET lo == Min(x.e, y.e)
    IN  IF IsZero(y) THEN x
        ELSE IF x.e - y.e > Reach
        THEN Round(SubN(ShiftLeft(x.m, 2), <<1>>), x.e - 2, TRUE)
        ELSE Round(SubN(ShiftLeft(x.m, x.e - lo), ShiftLeft(y.m, y.e - lo)), lo, FALSE)

\* x < y
Less(x, y) ==
    IF IsZero(y) THEN FALSE
    ELSE IF IsZero(x) THEN TRUE
    ELSE x.e < y.e \/ (x.e = y.e /\ LessN(x.m, y.m))

\* binary digits kept below the point when a ratio is divided out
Scale == 90

\* the float of the ratio p / q of two naturals below Limb: what a decimal literal
\* or a JSON number denotes
FromRatio(p, q) ==
    LET d == DivN(ShiftLeft(<<p>>, Scale), q)
    IN  Round(d.q, 0 - Scale, d.r # 0)

\* the int 1 of "1 - self.alpha" as a float
One == FromRatio(1, 1)

\* the floats of 0.1, 0.2, ... 1.0, worked out once
Tenths ==
    <<FromRatio(1, 10), FromRatio(2, 10), FromRatio(3, 10), FromRatio(4, 10),
      FromRatio(5, 10), FromRatio(6, 10), FromRatio(7, 10), FromRatio(8, 10),
      FromRatio(9, 10), FromRatio(10, 10)>>

\* the float of a decimal given in tenths
Dec(y) == IF y \in 1..10 THEN Tenths[y] ELSE FromRatio(y, 10)

\* 1 - self.alpha
Complement(a) == Sub(One, Dec(a))

\* self.ema_score > 0.75
Threshold == FromRatio(75, 100)
GreaterThanThreshold(s) == Less(Threshold, s)

\* faulty variant: the old average is weighted by 1 + alpha
EmaBlendSignSlip(a, y, s) == Add(Mul(Dec(a), Dec(y)), Mul(Add(One, Dec(a)), s))

\* faulty variant: the old average is not weighted at all
EmaBlendUnweighted(a, y, s) == Add(Mul(Dec(a), Dec(y)), s)

\* self.alpha * evaluation.score + (1 - self.alpha) * self.ema_score
EmaBlend(a, y, s) == Add(Mul(Dec(a), Dec(y)), Mul(Complement(a), s))

\* faulty variant: the first observation is smoothed too (a cold start biased toward zero)
UpdateEmaColdStart(a, y, s) == EmaBlend(a, y, IF s = Unset THEN Zero ELSE s)

\* the EMA branch of run_iteration
UpdateEma(a, y, s) == IF s = Unset THEN Dec(y) ELSE EmaBlend(a, y, s)

----------------------------------------------------------------------------
(* BenchmarkItem and its validator.  Characters are Unicode code points.   *)

\* "/", "+", "-" and "_"
Slash == 47
Plus == 43
Minus == 45
Underscore == 95

\* the characters str.strip() removes (str.isspace)
StripSpace ==
    (9..13) \cup (28..32) \cup {133, 160, 5760} \cup (8192..8202)
    \cup {8232, 8233, 8239, 8287, 12288}

\* the characters int() ignores around the number
IntSpace == StripSpace \ (28..31)

\* the digit zero of every script with decimal digits (general category Nd,
\* Unicode 14.0); the nine code points after each are its digits one to nine
DecimalZeros ==
    {48, 1632, 1776, 1984, 2406, 2534, 2662, 2790, 2918, 3046, 3174, 3302, 3430, 3558,
     3664, 3792, 3872, 4160, 4240, 6112, 6160, 6470, 6608, 6784, 6800, 6992, 7088, 7232,
     7248, 42528, 43216, 43264, 43472, 43504, 43600, 44016, 65296, 66720, 68912, 69734,
     69872, 69942, 70096, 70384, 70736, 70864, 71248, 71360, 71472, 71904, 72016, 72784,
     73040, 73120, 92768, 92864, 93008, 120782, 120792, 120802, 120812, 120822, 123200,
     123632, 125264, 130032}

Digits == UNION {z..(z + 9) : z \in DecimalZeros}
DigitVal(c) == c - (CHOOSE z \in DecimalZeros : c \in z..(z + 9))

\* the failure of int(): a value no integer field accepts
ValueError == -1000

\* v.split("/")[0]
SplitFirst(s) ==
    LET cut == {j \in 1..Len(s) : s[j] = Slash}
    IN  IF cut = {} THEN s
        ELSE SubSeq(s, 1, (CHOOSE j \in cut : \A k \in cut : j <= k) - 1)

\* s without the characters of the set space at its two ends
StripOf(s, space) ==
    LET ink == {j \in 1..Len(s) : s[j] \notin space}
    IN  IF ink = {} THEN <<>>
        ELSE SubSeq(s, CHOOSE j \in ink : \A k \in ink : j <= k,
                       CHOOSE j \in ink : \A k \in ink : j >= k)

\* str.strip()
Strip(s) == StripOf(s, StripSpace)

RECURSIVE DigitsValue(_)
DigitsValue(s) ==
    IF s = <<>> THEN 0
    ELSE 10 * DigitsValue(SubSeq(s, 1, Len(s) - 1)) + DigitVal(s[Len(s)])

\* int(text): white space around, an optional sign, then decimal digits of any
\* script with single underscores allowed between digits; anything else raises.
\* The texts of the model are short enough for the value to fit a machine integer.
ParseInt(s) ==
    LET t == StripOf(s, IntSpace)
        signed == Len(t) > 0 /\ t[1] \in {Plus, Minus}
        body == IF signed THEN Tail(t) ELSE t
        wellFormed ==
            /\ body # <<>>
            /\ \A j \in 1..Len(body) :
                   \/ body[j] \in Digits
                   \/ /\ body[j] = Underscore
                      /\ j > 1 /\ j < Len(body)
                      /\ body[j - 1] \in Digits /\ body[j + 1] \in Digits
        value == DigitsValue(SelectSeq(body, LAMBDA c : c \in Digits))
    IN  IF ~wellFormed THEN ValueError
        ELSE IF signed /\ t[1] = Minus THEN 0 - value
        ELSE value

\* BenchmarkItem.clean_int; v is [str |-> BOOLEAN, int, text]
clean_int(v) == IF v.str THEN ParseInt(Strip(SplitFirst(v.text))) ELSE v.int

\* Field(ge=1, le=10)
DifficultyFieldOk(d) == d # ValueError /\ d >= FieldMin /\ d <= FieldMax

NoItem == [topic |-> "", question |-> "", difficulty_intent |-> 0]

SentinelItem(d) ==
    [topic |-> "Generation Error",
     question |-> "[SYSTEM ERROR: Could not generate question. Skipping...]",
     difficulty_intent |-> d]

\* TRUE when create() returned and BenchmarkItem.model_validate_json accepts the reply
GeneratorReplyValid(r) ==
    /\ r.kind = "json"
    /\ DifficultyFieldOk(clean_int(r.difficulty_intent))

ParsedItem(r) ==
    [topic |-> r.topic, question |-> r.question,
     difficulty_intent |-> clean_int(r.difficulty_intent)]

----------------------------------------------------------------------------
(* Evaluation *)

NoEvaluation == [score |-> 0, reasoning |-> "", failure_modes |-> <<>>]

\* repr() of the float of a decimal given in tenths
FloatRepr(y) ==
    (IF y < 0 THEN "-" ELSE "")
    \o ToString((IF y < 0 THEN 0 - y ELSE y) \div 10) \o "."
    \o ToString((IF y < 0 THEN 0 - y ELSE y) % 10)

\* TRUE when the text s holds the character c
Has(s, c) == \E j \in 1..Len(s) : SubSeq(s, j, j) = c

\* repr() of the character c inside a text printed between the quotes q
CharRepr(c, q) ==
    IF c = "\\" THEN "\\\\"
    ELSE IF c = "\n" THEN "\\n"
    ELSE IF c = "\r" THEN "\\r"
    ELSE IF c = "\t" THEN "\\t"
    ELSE IF c = "\f" THEN "\\x0c"
    ELSE IF c = q THEN "\\" \o c
    ELSE c

\* the characters of s, each as repr() prints it, half by half
RECURSIVE Escaped(_, _)
Escaped(s, q) ==
    IF s = "" THEN ""
    ELSE IF Len(s) = 1 THEN CharRepr(s, q)
    ELSE Escaped(SubSeq(s, 1, Len(s) \div 2), q)
         \o Escaped(SubSeq(s, Len(s) \div 2 + 1, Len(s)), q)

\* repr() of a str: between double quotes when the text holds a single quote and
\* no double quote, between single quotes otherwise.  Texts are written with the
\* printable ASCII characters, tab, newline, carriage return and form feed.
StrRepr(s) ==
    LET q == IF Has(s, "'") /\ ~Has(s, "\"") THEN "\"" ELSE "'"
    IN  q \o Escaped(s, q) \o q

\* the length up to which pydantic prints the repr() of an input whole
ReprLimit == 50

\* the input_value of pydantic's error line: a repr() over the limit keeps its
\* first half and the end, one character shorter, around "..."
Shortened(t) ==
    LET half == (ReprLimit + 1) \div 2
    IN  IF Len(t) > ReprLimit
        THEN SubSeq(t, 1, half) \o "..." \o SubSeq(t, Len(t) - (half - 1) + 1, Len(t))
        ELSE t

\* where pydantic's error texts point the reader to
ErrorDocs == "https://errors.pydantic.dev/2.13/v/"

\* repr() of the score of a reply and the name of its type: a JSON integer is an
\* int, any other number a float
ScoreRepr(r) == IF r.integral THEN ToString(r.score \div 10) ELSE FloatRepr(r.score)
ScoreType(r) == IF r.integral THEN "int" ELSE "float"

\* str(e) of the ValidationError that Evaluation.model_validate_json raises for a
\* reply that is not JSON or whose score is outside [0.0, 1.0]
ValidationErrorText(r) ==
    IF r.kind = "text"
    THEN "1 validation error for Evaluation\n  Invalid JSON: " \o r.fault
         \o " [type=json_invalid, input_value=" \o Shortened(StrRepr(r.content))
         \o ", input_type=str]\n"
         \o "    For further information visit " \o ErrorDocs \o "json_invalid"
    ELSE IF r.score > 10
    THEN "1 validation error for Evaluation\nscore\n"
         \o "  Input should be less than or equal to 1 [type=less_than_equal, input_value="
         \o Shortened(ScoreRepr(r)) \o ", input_type=" \o ScoreType(r) \o "]\n"
         \o "    For further information visit " \o ErrorDocs \o "less_than_equal"
    ELSE "1 validation error for Evaluation\nscore\n"
         \o "  Input should be greater than or equal to 0 [type=greater_than_equal, input_value="
         \o Shortened(ScoreRepr(r)) \o ", input_type=" \o ScoreType(r) \o "]\n"
         \o "    For further information visit " \o ErrorDocs \o "greater_than_equal"

\* str(e) of the exception caught by judge
ErrorText(r) == IF r.kind = "exception" THEN r.text ELSE ValidationErrorText(r)

\* faulty variant: the fallback Evaluation carries a neutral score
SentinelEvaluationNeutral(t) ==
    [score |-> 5,
     reasoning |-> "System Error during evaluation: " \o t,
     failure_modes |-> <<[category |-> "System", description |-> "API/JSON Error"]>>]

\* the fallback Evaluation of judge; t is str(e)
SentinelEvaluation(t) ==
    [score |-> 0,
     reasoning |-> "System Error during evaluation: " \o t,
     failure_modes |-> <<[category |-> "System", description |-> "API/JSON Error"]>>]

\* Field(ge=0.0, le=1.0), in tenths
ScoreFieldOk(y) == y >= 0 /\ y <= 10

\* faulty variant: the range of the score is not checked
JudgeReplyValidAnyScore(r) == r.kind = "json"

JudgeReplyValid(r) == r.kind = "json" /\ ScoreFieldOk(r.score)

ParsedEvaluation(r) ==
    [score |-> r.score, reasoning |-> r.reasoning, failure_modes |-> r.failure_modes]

----------------------------------------------------------------------------
(* Upstream replies *)

\* the difficulty_intent texts "7/10", "3 out of 10" and, with a tab, an
\* underscore and the fullwidth digit four, "\t0_4 /10"
Chars(n) ==
    CASE n = 1 -> <<55, 47, 49, 48>>
      [] n = 2 -> <<51, 32, 111, 117, 116, 32, 111, 102, 32, 49, 48>>
      [] n = 3 -> <<9, 48, 95, 65300, 32, 47, 49, 48>>

IntField(n) == [str |-> FALSE, int |-> n, text |-> <<>>]
StrField(n) == [str |-> TRUE, int |-> 0, text |-> Chars(n)]

\* create() raised; text is str() of the exception
Raised == [kind |-> "exception", text |-> "boom"]

\* create() returned a content that is not JSON; fault is the parser's finding
NotJson ==
    [kind |-> "text", content |-> "this is not json",
     fault |-> "expected ident at line 1 column 2"]

\* the same with a longer content that holds a single quote and a newline
NotJsonProse ==
    [kind |-> "text", content |-> "Sure! Here's the evaluation you asked for,\nin JSON:",
     fault |-> "expected value at line 1 column 1"]

GeneratorJson(q, d) ==
    [kind |-> "json", topic |-> "T", question |-> q, difficulty_intent |-> d]

\* every outcome of the generator request
GeneratorReplies ==
    {Raised, NotJson}
    \cup {GeneratorJson(q, d) : q \in {"Q1", "Q2"},
                                d \in {IntField(5), IntField(11), StrField(1), StrField(2),
                                      StrField(3)}}

\* the reduced set: the request raises, or a well-formed item comes back
GeneratorLongReplies == {Raised, GeneratorJson("Q1", IntField(5))}

PyNone == "<None>"
SolverSentinel == "[SYSTEM ERROR: Solver failed to respond]"

SolverText(a) == [kind |-> "message", content |-> a]

\* every outcome of the solver request; content is Optional[str] upstream
SolverReplies == {Raised, SolverText("A"), SolverText(PyNone)}

SolverLongReplies == {SolverText("A")}

Issue(c) == [category |-> c, description |-> "d"]

\* a reply whose score is the JSON number y / 10 written with a fraction
JudgeJson(y, modes) ==
    [kind |-> "json", score |-> y, integral |-> FALSE, reasoning |-> "R",
     failure_modes |-> modes]

\* a reply whose score is the JSON integer n
JudgeJsonInt(n, modes) ==
    [kind |-> "json", score |-> 10 * n, integral |-> TRUE, reasoning |-> "R",
     failure_modes |-> modes]

\* every outcome of the judge request
JudgeReplies ==
    {Raised, NotJson, NotJsonProse,
     JudgeJson(10, <<>>), JudgeJson(5, <<Issue("Omission")>>),
     JudgeJson(0, <<Issue("Factual"), Issue("Safety")>>),
     JudgeJson(15, <<>>), JudgeJson(-5, <<Issue("Factual")>>),
     JudgeJsonInt(2, <<>>)}

\* the reduced set: the two ends of the rubric
JudgeLongReplies == {JudgeJson(10, <<>>), JudgeJson(0, <<Issue("Factual")>>)}

\* the generator succeeds
GeneratorEmaReplies == {GeneratorJson("Q1", IntField(5))}

\* every score of the range in whole tenths
JudgeEmaReplies == {JudgeJson(y, <<>>) : y \in 0..10}

----------------------------------------------------------------------------
(* Prompts *)

\* self.question_history[-10:]
Recent(h) == SubSeq(h, Max(1, Len(h) - HistoryWindow + 1), Len(h))

\* the prompt of generate_question: which instructions its text holds
GeneratorPrompt(dom, d, h) ==
    IF d > TrapAbove
    THEN [trap |-> TRUE, names_domain |-> FALSE, domain |-> "",
          names_difficulty |-> FALSE, difficulty |-> 0,
          lists_history |-> FALSE, recent |-> <<>>]
    ELSE [trap |-> FALSE, names_domain |-> TRUE, domain |-> dom,
          names_difficulty |-> TRUE, difficulty |-> d,
          lists_history |-> TRUE, recent |-> Recent(h)]

GeneratorRequest(dom, d, h) == [to |-> "generator", prompt |-> GeneratorPrompt(dom, d, h)]
SolverRequest(dom, q) == [to |-> "solver", domain |-> dom, question |-> q]
JudgeRequest(q, a) == [to |-> "judge", question |-> q, answer |-> a]

----------------------------------------------------------------------------
(* Difficulty policy *)

\* faulty variant: the upward branch is not capped
SelectDifficultyNoCeiling(ema, it) ==
    IF ema = Unset THEN DefaultDifficulty
    ELSE IF GreaterThanThreshold(ema) THEN HardBase + it \div 2
    ELSE Max(MinDifficulty, EasyBase - it \div 2)

\* faulty variant: the downward branch is not floored
SelectDifficultyNoFloor(ema, it) ==
    IF ema = Unset THEN DefaultDifficulty
    ELSE IF GreaterThanThreshold(ema) THEN Min(MaxDifficulty, HardBase + it \div 2)
    ELSE EasyBase - it \div 2

SelectDifficulty(ema, it) ==
    IF ema = Unset THEN DefaultDifficulty
    ELSE IF GreaterThanThreshold(ema) THEN Min(MaxDifficulty, HardBase + it \div 2)
    ELSE Max(MinDifficulty, EasyBase - it \div 2)

NoSel == [read |-> Unset, difficulty |-> 0]
NoReply == [kind |-> "none"]
NoRecord == [iteration |-> 0]

----------------------------------------------------------------------------
(* The state machine *)

Init ==
    /\ alpha \in Alphas
    /\ ema_score = Unset
    /\ iteration = 0
    /\ question_history = <<>>
    /\ pc = "idle"
    /\ domain = ""
    /\ difficulty = 0
    /\ item = NoItem
    /\ answer = ""
    /\ evaluation = NoEvaluation
    /\ requests = <<>>
    /\ response = NoReply
    /\ record = NoRecord
    /\ sel = NoSel
    /\ prev_sel = NoSel

\* run_iteration is entered: the counter is bumped and the difficulty selected
Begin(doms, limit) ==
    /\ pc = "idle"
    /\ iteration < limit
    /\ \E dom \in doms : domain' = dom
    /\ iteration' = iteration + 1
    /\ difficulty' = SelectDifficulty(ema_score, iteration + 1)
    /\ prev_sel' = sel
    /\ sel' = [read |-> ema_score, difficulty |-> difficulty']
    /\ record' = NoRecord
    /\ requests' = <<>>
    /\ response' = NoReply
    /\ pc' = "selected"
    /\ UNCHANGED <<alpha, ema_score, question_history, item, answer, evaluation>>

\* item = self.generate_question(domain, difficulty)
Generate(replies) ==
    /\ pc = "selected"
    /\ \E r \in replies :
        /\ response' = r
        /\ IF GeneratorReplyValid(r)
           THEN /\ item' = ParsedItem(r)
                /\ question_history' = Append(question_history, r.question)
                /\ pc' = "generated"
           ELSE IF DifficultyFieldOk(difficulty)
           THEN /\ item' = SentinelItem(difficulty)
                /\ question_history' = question_history
                /\ pc' = "generated"
           ELSE \* the fallback BenchmarkItem(...) fails validation inside the handler
                /\ item' = NoItem
                /\ question_history' = question_history
                /\ pc' = "raised"
    /\ requests' = Append(requests, GeneratorRequest(domain, difficulty, question_history))
    /\ UNCHANGED <<alpha, ema_score, iteration, domain, difficulty, answer,
                   evaluation, record, sel, prev_sel>>

\* answer = self.solve(domain, item.question)
Solve(replies) ==
    /\ pc = "generated"
    /\ \E r \in replies :
        /\ response' = r
        /\ answer' = IF r.kind = "message" THEN r.content ELSE SolverSentinel
    /\ requests' = Append(requests, SolverRequest(domain, item.question))
    /\ pc' = "solved"
    /\ UNCHANGED <<alpha, ema_score, iteration, question_history, domain, difficulty,
                   item, evaluation, record, sel, prev_sel>>

\* faulty variant: a judge request whose reply is unusable is sent a second time
JudgeRetrying(replies) ==
    /\ pc = "solved"
    /\ \E r \in replies :
        /\ response' = r
        /\ evaluation' = IF JudgeReplyValid(r) THEN ParsedEvaluation(r)
                         ELSE SentinelEvaluation(ErrorText(r))
        /\ requests' = IF JudgeReplyValid(r)
                       THEN Append(requests, JudgeRequest(item.question, answer))
                       ELSE Append(Append(requests, JudgeRequest(item.question, answer)),
                                   JudgeRequest(item.question, answer))
    /\ pc' = "judged"
    /\ UNCHANGED <<alpha, ema_score, iteration, question_history, domain, difficulty,
                   item, answer, record, sel, prev_sel>>

\* evaluation = self.judge(domain, item.question, answer)
Judge(replies) ==
    /\ pc = "solved"
    /\ \E r \in replies :
        /\ response' = r
        /\ evaluation' = IF JudgeReplyValid(r) THEN ParsedEvaluation(r)
                         ELSE SentinelEvaluation(ErrorText(r))
    /\ requests' = Append(requests, JudgeRequest(item.question, answer))
    /\ pc' = "judged"
    /\ UNCHANGED <<alpha, ema_score, iteration, question_history, domain, difficulty,
                   item, answer, record, sel, prev_sel>>

\* faulty variant: the record carries a zero-based index
MakeRecordZeroBased(it, d, i, a, e, ema) ==
    [iteration |-> it - 1, difficulty |-> d, topic |-> i.topic, question |-> i.question,
     answer |-> a, score |-> e.score, ema |-> ema,
     failure_modes |-> e.failure_modes, reasoning |-> e.reasoning]

MakeRecord(it, d, i, a, e, ema) ==
    [iteration |-> it, difficulty |-> d, topic |-> i.topic, question |-> i.question,
     answer |-> a, score |-> e.score, ema |-> ema,
     failure_modes |-> e.failure_modes, reasoning |-> e.reasoning]

\* the EMA update and the return of run_iteration
Return ==
    /\ pc = "judged"
    /\ ema_score' = UpdateEma(alpha, evaluation.score, ema_score)
    /\ record' = MakeRecord(iteration, difficulty, item, answer, evaluation, ema_score')
    /\ pc' = "idle"
    /\ domain' = ""
    /\ difficulty' = 0
    /\ item' = NoItem
    /\ answer' = ""
    /\ evaluation' = NoEvaluation
    /\ requests' = <<>>
    /\ response' = NoReply
    /\ UNCHANGED <<alpha, iteration, question_history, sel, prev_sel>>

Next ==
    \/ Begin(Domains, MaxIter)
    \/ Generate(GeneratorReplies)
    \/ Solve(SolverReplies)
    \/ Judge(JudgeReplies)
    \/ Return

Spec == Init /\ [][Next]_vars

\* long runs on the reduced set of replies: the generator raises or succeeds, the
\* solver succeeds and the judge scores 1.0 or 0.0
NextLong ==
    \/ Begin({"Oncology"}, MaxIterLong)
    \/ Generate(GeneratorLongReplies)
    \/ Solve(SolverLongReplies)
    \/ Judge(JudgeLongReplies)
    \/ Return

SpecLong == Init /\ [][NextLong]_vars

\* short runs in which the generator and the solver succeed and the judge gives
\* any score of the range
NextEma ==
    \/ Begin({"Oncology"}, MaxIterEma)
    \/ Generate(GeneratorEmaReplies)
    \/ Solve(SolverLongReplies)
    \/ Judge(JudgeEmaReplies)
    \/ Return

SpecEma == Init /\ [][NextEma]_vars

----------------------------------------------------------------------------
(* Shape of the state; the last conjunct says the EMA is a normalised float *)
TypeOK ==
    /\ pc \in {"idle", "selected", "generated", "solved", "judged", "raised"}
    /\ iteration \in 0..(MaxIterLong + 1)
    /\ ema_score # Unset =>
           \/ ema_score = Zero
           \/ /\ ema_score.m[4] >= 2^(MantissaBits - 3 * LimbBits - 1)
              /\ ema_score.m[4] < 2^(MantissaBits - 3 * LimbBits)

----------------------------------------------------------------------------
(* Claims *)

HasRecord == record.iteration > 0

\* an exponent at or below those of the floats x, z and u, and at most -60, so
\* that 2^-51 is a whole number of units 2^lo
Floor(x, z, u) ==
    LET ex(v) == IF v = Unset \/ IsZero(v) THEN 0 ELSE v.e
    IN  Min(Min(ex(x), ex(z)), Min(ex(u), 0 - 60))

\* the natural number k * x / 2^lo, for a float x and a factor k below Limb
Scaled(x, k, lo) == MulSmall(ShiftLeft(x.m, IF IsZero(x) THEN 0 ELSE x.e - lo), k)

\* 100 * t = a * y + 10 * (10 - a) * s, that is t = alpha*Y + (1-alpha)*S for alpha a
\* and score y in tenths, in the real numbers
BlendExact(a, y, s, t) ==
    LET lo == Floor(s, t, t)
    IN  Scaled(t, 100, lo) = AddN(ShiftLeft(<<a * y>>, 0 - lo), Scaled(s, 10 * (10 - a), lo))

\* the same within 2^-51: |t - (alpha*Y + (1-alpha)*S)| <= 2^-51
BlendRounded(a, y, s, t) ==
    LET lo == Floor(s, t, t)
        lhs == Scaled(t, 100, lo)
        rhs == AddN(ShiftLeft(<<a * y>>, 0 - lo), Scaled(s, 10 * (10 - a), lo))
        tol == ShiftLeft(<<100>>, 0 - 51 - lo)
    IN  ~LessN(AddN(rhs, tol), lhs) /\ ~LessN(AddN(lhs, tol), rhs)

\* the float next below x, for x not a power of two
Below(x) == [m |-> Low4(SubN(ShiftLeft(x.m, 0), <<1>>)), e |-> x.e]

\* C1: run_iteration never raises and returns a record with every field defined,
\* whatever the generator, the solver and the judge do; a failed generator call
\* gives the 'Generation Error' topic and the '[SYSTEM ERROR ...]' question, a
\* failed solver call the '[SYSTEM ERROR ...]' answer.
C1_CompleteRecord ==
    /\ pc # "raised"
    /\ (pc = "generated" /\ ~GeneratorReplyValid(response)) =>
           /\ item.topic = "Generation Error"
           /\ item.question = "[SYSTEM ERROR: Could not generate question. Skipping...]"
    /\ (pc = "solved" /\ response = Raised) => answer = SolverSentinel
    /\ (pc = "idle" /\ HasRecord) =>
           /\ record.iteration = iteration
           /\ record.difficulty \in FieldMin..FieldMax
           /\ record.topic \notin {"", PyNone}
           /\ record.question \notin {"", PyNone}
           /\ record.answer \notin {"", PyNone}
           /\ ScoreFieldOk(record.score)
           /\ record.ema # Unset
           /\ record.reasoning \notin {"", PyNone}
           /\ Len(record.failure_modes) >= 0

\* C2, as stated: the EMA stored by run_iteration is the raw score Y when it was
\* unset before the call and exactly alpha*Y + (1-alpha)*S otherwise (alpha 0.3,
\* S 0.5, Y 1.0 give 0.65), and the record's 'ema' is the stored value.
C2_EmaRecurrence ==
    (pc = "idle" /\ HasRecord) =>
        /\ record.ema = ema_score
        /\ sel.read = Unset => ema_score = Dec(record.score)
        /\ sel.read # Unset => BlendExact(alpha, record.score, sel.read, ema_score)
        /\ (alpha = 3 /\ sel.read = Dec(5) /\ record.score = 10) =>
               ema_score = FromRatio(65, 100)

\* C2, amended: the EMA stored by run_iteration is the raw score Y when it was
\* unset before the call and otherwise alpha*Y + (1-alpha)*S worked out in floats,
\* which is within 2^-51 of the exact value (alpha 0.3, S 0.5, Y 1.0 give
\* 0.6499999999999999, the float next below 0.65), and the record's 'ema' is the
\* stored value.
C2_EmaRecurrenceRounded ==
    (pc = "idle" /\ HasRecord) =>
        /\ record.ema = ema_score
        /\ sel.read = Unset => ema_score = Dec(record.score)
        /\ sel.read # Unset => BlendRounded(alpha, record.score, sel.read, ema_score)
        /\ (alpha = 3 /\ sel.read = Dec(5) /\ record.score = 10) =>
               ema_score = Below(FromRatio(65, 100))

\* C2 witness: a call returned with alpha 0.3, the EMA 0.5 before it and score 1.0
C2_Witness ==
    /\ pc = "idle" /\ HasRecord
    /\ alpha = 3
    /\ sel.read = Dec(5)
    /\ record.score = 10
    /\ record.ema = Below(FromRatio(65, 100))

\* C3: when the judge call fails, the Evaluation is the sentinel (score 0.0, one
\* failure mode, tagged System) and the EMA update runs with Y = 0.0: the EMA
\* becomes 0.0 if it was unset and (1-alpha)*S otherwise, whatever the generator
\* and the solver did.
C3_JudgeFailure ==
    [][(pc = "judged" /\ ~JudgeReplyValid(response)) =>
          /\ evaluation.score = 0
          /\ Len(evaluation.failure_modes) = 1
          /\ evaluation.failure_modes[1].category = "System"
          /\ pc' = "idle"
          /\ record'.score = 0
          /\ record'.ema = ema_score'
          /\ ema_score = Unset => ema_score' = Zero
          /\ ema_score # Unset => ema_score' = Mul(Sub(One, Dec(alpha)), ema_score)]_vars

\* C3 witness: generator, solver and judge all failed in a call made with the EMA
\* at 1.0 and alpha 0.3, and the EMA is now 0.7
C3_Witness ==
    /\ pc = "idle" /\ HasRecord
    /\ record.topic = "Generation Error"
    /\ record.answer = SolverSentinel
    /\ record.reasoning = "System Error during evaluation: boom"
    /\ alpha = 3
    /\ sel.read = One
    /\ ema_score = Dec(7)

\* C4: every run_iteration call appends exactly one entry to the history, whether
\* the generation succeeded or produced the sentinel item, so after N calls the
\* history has N entries; entries already there are never removed or changed.
C4_OneEntryPerCall ==
    /\ pc \in {"generated", "solved", "judged", "idle"} => Len(question_history) = iteration
    /\ pc = "selected" => Len(question_history) = iteration - 1

ThreeQuarters == FromRatio(3, 4)

\* the EMA s is set and above 0.75
AboveThreeQuarters(s) == s # Unset /\ Less(ThreeQuarters, s)

AtMostThreeQuarters(s) == s # Unset /\ ~AboveThreeQuarters(s)

\* C5: over consecutive iterations whose EMA read at selection is > 0.75 the
\* difficulty is non-decreasing and at most 10; over consecutive iterations whose
\* EMA is <= 0.75 (0.75 included) it is non-increasing and at least 3.
C5_MonotonePolicy ==
    /\ AboveThreeQuarters(sel.read) => sel.difficulty <= 10
    /\ AtMostThreeQuarters(sel.read) => sel.difficulty >= 3
    /\ (AboveThreeQuarters(prev_sel.read) /\ AboveThreeQuarters(sel.read)) =>
           sel.difficulty >= prev_sel.difficulty
    /\ (AtMostThreeQuarters(prev_sel.read) /\ AtMostThreeQuarters(sel.read)) =>
           sel.difficulty <= prev_sel.difficulty

\* C5 witness: two consecutive selections above 0.75, late enough for the cap to
\* cut the raw value 11 down to 10
C5_Witness ==
    /\ AboveThreeQuarters(prev_sel.read) /\ AboveThreeQuarters(sel.read)
    /\ iteration >= 10
    /\ prev_sel.difficulty = 10 /\ sel.difficulty = 10

\* C6: the difficulty given to the generator and reported in the record is an
\* integer in [1,10], it is 5 when no EMA exists yet, and the sentinel item built
\* with it satisfies the [1,10] constraint of difficulty_intent.
C6_DifficultyRange ==
    /\ pc # "raised"
    /\ pc # "idle" => /\ difficulty \in 1..10
                      /\ sel.difficulty = difficulty
                      /\ ema_score = Unset => difficulty = 5
    /\ HasRecord => record.difficulty \in 1..10
    /\ (pc = "generated" /\ ~GeneratorReplyValid(response)) =>
           /\ item.difficulty_intent = difficulty
           /\ item.difficulty_intent \in 1..10

\* C6 witness: a sentinel item built in a late iteration of a struggling run, where
\* the floor turns the raw value 5 - 6 into 3
C6_Witness ==
    /\ pc = "generated"
    /\ response = Raised
    /\ iteration >= 6
    /\ item = SentinelItem(3)

\* C7: the score of every Evaluation is in [0.0, 1.0]; a judge reply with a score
\* outside it is a validation failure (the sentinel Evaluation is used), never
\* accepted after clamping, so every record's 'score' is in [0,1].
C7_ScoreRange ==
    /\ pc = "judged" => evaluation.score \in 0..10
    /\ (pc = "judged" /\ response.kind = "json" /\ response.score \notin 0..10) =>
           /\ evaluation.score = 0
           /\ evaluation.reasoning # response.reasoning
           /\ Len(evaluation.failure_modes) = 1
           /\ evaluation.failure_modes[1].category = "System"
    /\ HasRecord => record.score \in 0..10

\* C7 witness: the judge answered with score 1.5 and the sentinel was used
\* although the EMA of the call was set
C7_Witness ==
    /\ pc = "judged"
    /\ response.kind = "json" /\ response.score = 15
    /\ evaluation.score = 0
    /\ ema_score # Unset

\* C8: for every difficulty the generator prompt tells the model to target that
\* difficulty and names the domain; it holds the false-premise requirement
\* exactly when the difficulty is 9 or more.
C8_PromptTargetsDifficulty ==
    Len(requests) >= 1 =>
        LET p == requests[1].prompt
        IN  /\ p.names_difficulty /\ p.difficulty = difficulty
            /\ p.names_domain /\ p.domain = domain
            /\ p.trap <=> difficulty >= 9

\* C9: whatever the difficulty, the prompt of generate_question lists exactly the
\* most recent min(10, len(history)) entries of the history as it stood before the
\* call, in order; each successful generation adds one entry to the history.
C9_RecentHistoryInPrompt ==
    [][(pc = "selected" /\ pc' = "generated") =>
          LET p == requests'[1].prompt
              n == Min(10, Len(question_history))
          IN  /\ p.lists_history
              /\ p.recent = [j \in 1..n |-> question_history[Len(question_history) - n + j]]
              /\ GeneratorReplyValid(response') =>
                     Len(question_history') = Len(question_history) + 1]_vars

\* C10: validation coerces a malformed difficulty_intent by its leading integer
\* token: "7/10" validates to 7 and "3 out of 10" validates to 3, and neither
\* turns the generation into the sentinel item.
C10_LeadingIntegerCoercion ==
    (pc = "generated" /\ response.kind = "json" /\ response.difficulty_intent.str) =>
        LET text == response.difficulty_intent.text
        IN  /\ text = <<55, 47, 49, 48>> =>
                   /\ item.difficulty_intent = 7
                   /\ item.topic = response.topic /\ item.question = response.question
            /\ text = <<51, 32, 111, 117, 116, 32, 111, 102, 32, 49, 48>> =>
                   /\ item.difficulty_intent = 3
                   /\ item.topic = response.topic /\ item.question = response.question

\* C11, as stated: with the raw score held at Y, every update of a set EMA moves
\* it strictly closer to Y on the side it started from, never onto or across Y,
\* and an EMA equal to Y stays equal to Y.  Stated for every single update with
\* its own Y, which gives the statement for every run of updates with one Y.
C11_EmaConvergence ==
    (pc = "idle" /\ HasRecord /\ sel.read # Unset) =>
        LET y == Dec(record.score)
            before == sel.read
        IN  /\ before = y => ema_score = y
            /\ Less(before, y) => Less(before, ema_score) /\ Less(ema_score, y)
            /\ Less(y, before) => Less(y, ema_score) /\ Less(ema_score, before)

\* x + 2^-50 < z for floats x and z, with lo an exponent below theirs
FarBelow(x, z, lo) ==
    LessN(AddN(Scaled(x, 1, lo), ShiftLeft(<<1>>, 0 - 50 - lo)), Scaled(z, 1, lo))

\* |x - z| > 2^-50
Far(x, z, lo) == FarBelow(x, z, lo) \/ FarBelow(z, x, lo)

\* C11, amended: with the raw score held at Y, every update of a set EMA that is
\* more than 2^-50 away from Y moves it strictly closer to Y on the side it
\* started from: the new EMA lies strictly between the old EMA and Y, so it never
\* crosses or overshoots Y.  An EMA within 2^-50 of Y, one equal to Y included,
\* stays within 2^-50 of Y.
C11_EmaConvergenceRounded ==
    (pc = "idle" /\ HasRecord /\ sel.read # Unset) =>
        LET y == Dec(record.score)
            before == sel.read
            lo == Floor(before, y, ema_score)
        IN  /\ FarBelow(before, y, lo) => Less(before, ema_score) /\ Less(ema_score, y)
            /\ FarBelow(y, before, lo) => Less(y, ema_score) /\ Less(ema_score, before)
            /\ ~Far(before, y, lo) => ~Far(ema_score, y, lo)

\* C11 witness: alpha 0.3 and the scores 0.1, 0.1, 1.0: the first call set the
\* EMA to 0.1, the second one moved it one unit below 0.1 although the score was
\* 0.1 again, and the third one moved it strictly closer to 1.0 from below
C11_Witness ==
    /\ pc = "idle" /\ HasRecord
    /\ alpha = 3
    /\ prev_sel.read = Dec(1)
    /\ sel.read = Below(Dec(1))
    /\ record.score = 10
    /\ Less(sel.read, ema_score)
    /\ Less(ema_score, Dec(10))

\* C12: history, EMA and iteration counter change only in the update phase that
\* ends an iteration; they stay unchanged while the difficulty is selected and
\* during the generate, solve and judge steps, so the selection reads the counter
\* left by the previous iteration.
C12_StateChangesOnlyAtUpdate ==
    [][pc' # "idle" => /\ question_history' = question_history
                       /\ ema_score' = ema_score
                       /\ iteration' = iteration]_vars

SentinelQuestion == "[SYSTEM ERROR: Could not generate question. Skipping...]"

\* C13: a run_iteration call sends one generator request, then one solver
\* request, then one judge request, one after the other, and only then updates
\* the EMA; no request is sent twice and a failed step does not skip the later
\* ones: the solver gets the sentinel question, the judge the sentinel answer.
C13_OneRequestEachInOrder ==
    /\ pc = "selected" => requests = <<>>
    /\ pc = "generated" => Len(requests) = 1
    /\ pc = "solved" => Len(requests) = 2
    /\ pc = "judged" => Len(requests) = 3
    /\ Len(requests) >= 1 => requests[1].to = "generator"
    /\ Len(requests) >= 2 => /\ requests[2].to = "solver"
                             /\ requests[2].question = item.question
                             /\ item.topic = "Generation Error" =>
                                    requests[2].question = SentinelQuestion
    /\ Len(requests) >= 3 => /\ requests[3].to = "judge"
                             /\ requests[3].question = item.question
                             /\ requests[3].answer = answer
    /\ (pc = "solved" /\ response = Raised) => answer = SolverSentinel
    /\ pc \in {"selected", "generated", "solved", "judged"} => ema_score = sel.read
    /\ (pc = "idle" /\ HasRecord) => ema_score # Unset /\ requests = <<>>

\* C13 witness: generator, solver and judge all failed and each was asked once:
\* the solver with the sentinel question, the judge with the sentinel answer
C13_Witness ==
    /\ pc = "judged"
    /\ Len(requests) = 3
    /\ requests[2].question = SentinelQuestion
    /\ requests[3].answer = SolverSentinel
    /\ response = Raised
    /\ evaluation.reasoning = "System Error during evaluation: boom"

\* C14: the iteration counter starts at 0, grows by exactly 1 with each
\* run_iteration call, whatever the upstream requests do, and never decreases;
\* the record returned by the k-th call has 'iteration' k.
C14_CounterCountsCalls ==
    /\ iteration = 0
    /\ [][/\ (pc = "idle" /\ pc' = "selected") => iteration' = iteration + 1
          /\ ~(pc = "idle" /\ pc' = "selected") => iteration' = iteration]_vars
    /\ []((pc = "idle" /\ iteration > 0) => record.iteration = iteration)

\* C14 witness: the fourth call returned with every upstream request failed
C14_Witness ==
    /\ pc = "idle"
    /\ record.iteration = 4
    /\ record.topic = "Generation Error"
    /\ record.answer = SolverSentinel
    /\ record.reasoning = "System Error during evaluation: boom"
    /\ Len(question_history) = 0

\* a call has returned
Returned == iteration >= 2 \/ (iteration = 1 /\ pc = "idle")

\* C15: the EMA is unset until the first run_iteration call returns and set ever
\* after; once set it is in [0.0, 1.0] after every call, whatever the judge
\* answers (valid scores, scores out of range, failures); so the default
\* difficulty 5 is used by the first iteration and by no other.  (A float of the
\* model has no sign: the operands of the update are never negative.)
C15_EmaSetAndBounded ==
    /\ ema_score = Unset <=> ~Returned
    /\ ema_score # Unset => ~Less(One, ema_score)
    /\ HasRecord => record.ema = ema_score
    /\ pc \in {"selected", "generated", "solved", "judged"} =>
           /\ sel.read = Unset <=> iteration = 1
           /\ difficulty = 5 <=> iteration = 1

\* C15 witness: the second call returned with the sentinel Evaluation for a judge
\* reply whose score 1.5 is out of range, after a first call scored above 0.0: the
\* EMA is set and strictly inside the range, and the second call did not use the
\* default difficulty
C15_Witness ==
    /\ pc = "idle"
    /\ iteration = 2
    /\ record.reasoning = SentinelEvaluation(ValidationErrorText(JudgeJson(15, <<>>))).reasoning
    /\ sel.read # Unset
    /\ sel.difficulty # 5
    /\ Less(Zero, ema_score)
    /\ Less(ema_score, One)
====
